---- MODULE Spec2Model ----
(***************************************************************************)
(* Model of internal/db/bundb/bundb.go: the startup sequence               *)
(* (NewBunDBService, pgConn, sqliteConn, deriveBunDBPGOptions,             *)
(* doMigration) and the three conversion functions                         *)
(* (MentionStringsToMentions, TagStringsToTags, EmojiStringsToEmojis).     *)
(*                                                                         *)
(* Strings that the code takes apart (mention tokens, tag names,           *)
(* shortcodes) are sequences of one-character strings.  A Go error is a    *)
(* record [msg, is]: msg is the text of Error(), is the set of sentinel    *)
(* errors that errors.Is would find in its chain.                          *)
(***************************************************************************)
EXTENDS Integers, Sequences, FiniteSets, TLC

(* ------------------------------ bounds -------------------------------- *)

\* longest token list handed to one conversion call
MaxTokens == 2
\* conversion calls one caller makes
MaxCalls == 2
\* last value of the clock read by time.Now(); the clock is that of the
\* moment a TagStringsToTags call is made
MaxTime == 1
\* times the process is started on one database
MaxStartups == 2
\* most migrations defined in migrations.Migrations
MaxMigrations == 2

NumWorkers == 2
Workers == 1..NumWorkers

(* ------------------------------ errors -------------------------------- *)

Nil == [msg |-> <<>>, is |-> {}]

ErrNoRows == [msg |-> <<"sql: no rows in result set">>, is |-> {"sql.ErrNoRows"}]

ContextCanceled == [msg |-> <<"context canceled">>, is |-> {"context.Canceled"}]

DeadlineExceeded ==
    [msg |-> <<"context deadline exceeded">>, is |-> {"context.DeadlineExceeded"}]

ErrBadConn == [msg |-> <<"driver: bad connection">>, is |-> {"driver.ErrBadConn"}]

\* errors.New(text)
ErrorsNew(text) == [msg |-> <<text>>, is |-> {}]

\* fmt.Errorf(prefix + "%s", e): the text of e is formatted into a new error,
\* the chain of e is not kept (the verb is %s, not %w)
Errorf(prefix, e) == [msg |-> <<prefix>> \o e.msg, is |-> {}]

\* errors.Is(e, target)
ErrorsIs(e, target) == target \in e.is

(* ------------------------------ strings ------------------------------- *)

\* LOWER(?) of the SQL dialects / strings.ToLower, on one character
LowerChar(c) ==
    CASE c = "A" -> "a"
      [] c = "N" -> "n"
      [] c = "X" -> "x"
      [] OTHER -> c

ToLower(s) == [i \in 1..Len(s) |-> LowerChar(s[i])]

\* strings.TrimPrefix(a, "@")
TrimPrefixAt(a) == IF Len(a) >= 1 /\ a[1] = "@" THEN Tail(a) ELSE a

\* strings.Split(t, "@")
RECURSIVE SplitAt(_)
SplitAt(t) ==
    IF \A i \in 1..Len(t) : t[i] # "@"
    THEN <<t>>
    ELSE LET i == CHOOSE k \in 1..Len(t) :
                      t[k] = "@" /\ \A j \in 1..(k - 1) : t[j] # "@"
         IN  <<SubSeq(t, 1, i - 1)>> \o SplitAt(SubSeq(t, i + 1, Len(t)))

(* ------------------------------- store -------------------------------- *)

VARIABLES
    accounts,   \* rows of the accounts table
    mentions,   \* rows of the mentions table
    tags,       \* rows of the tags table
    emojis,     \* rows of the emojis table
    call,       \* per caller: the conversion call in progress
    fault,      \* per caller: state of the call's context / connection
    now,        \* the clock read by time.Now()
    ncalls,     \* per caller: calls made so far
    lastTags,   \* per caller: what its previous TagStringsToTags returned, kept
                \* when that was a single tag
    callers,    \* the callers that make calls
    role,       \* per caller: the conversion function it calls
    cfg,        \* the configuration (viper) and the files it names
    boot,       \* NewBunDBService: position, events so far, returned values
    schema,     \* the migration bookkeeping persisted in the database
    defined,    \* number of migrations in migrations.Migrations
    nstart      \* startups so far

startupVars == <<cfg, boot, schema, defined, nstart>>

ZeroAccount == [ID |-> 0, Username |-> <<>>, Domain |-> <<>>, URI |-> "", URL |-> ""]

\* the origin account of every status in the model
Account0 ==
    [ID |-> 10, Username |-> <<"o">>, Domain |-> <<>>, URI |-> "uri10", URL |-> "url10"]

\* a local account: the domain column is NULL (nullzero: the empty string)
Account1 ==
    [ID |-> 11, Username |-> <<"a">>, Domain |-> <<>>, URI |-> "uri11", URL |-> "url11"]

\* a remote account with the same username, stored in upper case
Account2 ==
    [ID |-> 12, Username |-> <<"A">>, Domain |-> <<"X">>, URI |-> "uri12", URL |-> "url12"]

ZeroTag ==
    [ID |-> 0, URL |-> <<>>, Name |-> <<>>, FirstSeenFromAccountID |-> 0,
     CreatedAt |-> 0, UpdatedAt |-> 0, Useable |-> FALSE, Listable |-> FALSE,
     LastStatusAt |-> 0]

\* a tag that is in use, stored in lower case
TagN ==
    [ID |-> 21, URL |-> <<"https", "://", "host", "/tags/", <<"n">>>>, Name |-> <<"n">>,
     FirstSeenFromAccountID |-> 10, CreatedAt |-> 0, UpdatedAt |-> 0,
     Useable |-> TRUE, Listable |-> TRUE, LastStatusAt |-> 0]

\* a tag an admin has made not useable
TagU ==
    [ID |-> 22, URL |-> <<"https", "://", "host", "/tags/", <<"u">>>>, Name |-> <<"u">>,
     FirstSeenFromAccountID |-> 10, CreatedAt |-> 0, UpdatedAt |-> 0,
     Useable |-> FALSE, Listable |-> TRUE, LastStatusAt |-> 0]

ZeroEmoji ==
    [ID |-> 0, Shortcode |-> <<>>, Domain |-> <<>>, VisibleInPicker |-> FALSE,
     Disabled |-> FALSE]

Emoji1 ==
    [ID |-> 31, Shortcode |-> <<"e">>, Domain |-> <<>>, VisibleInPicker |-> TRUE,
     Disabled |-> FALSE]

\* the same shortcode from another domain (unique is shortcode + domain)
Emoji2 ==
    [ID |-> 32, Shortcode |-> <<"e">>, Domain |-> <<"x">>, VisibleInPicker |-> TRUE,
     Disabled |-> FALSE]

Emoji3 ==
    [ID |-> 33, Shortcode |-> <<"e">>, Domain |-> <<"y">>, VisibleInPicker |-> TRUE,
     Disabled |-> TRUE]

Emoji4 ==
    [ID |-> 34, Shortcode |-> <<"f">>, Domain |-> <<>>, VisibleInPicker |-> FALSE,
     Disabled |-> FALSE]

\* the contents of the database when the service starts to take calls,
\* with the conversion function the caller of the model uses on it
Stores ==
    { [role |-> "mention", accounts |-> {Account0, Account1, Account2},
       tags |-> {TagN, TagU}, emojis |-> {Emoji1, Emoji3, Emoji4}],
      [role |-> "mention", accounts |-> {Account0, Account1},
       tags |-> {TagN, TagU}, emojis |-> {Emoji1, Emoji3, Emoji4}],
      [role |-> "mention", accounts |-> {Account0, Account2},
       tags |-> {TagN, TagU}, emojis |-> {Emoji1, Emoji3, Emoji4}],
      [role |-> "mention", accounts |-> {Account0},
       tags |-> {TagN, TagU}, emojis |-> {Emoji1, Emoji3, Emoji4}],
      [role |-> "tag", accounts |-> {Account0, Account1, Account2},
       tags |-> {}, emojis |-> {Emoji1, Emoji3, Emoji4}],
      [role |-> "tag", accounts |-> {Account0, Account1, Account2},
       tags |-> {TagN, TagU}, emojis |-> {Emoji1, Emoji3, Emoji4}],
      [role |-> "emoji", accounts |-> {Account0, Account1, Account2},
       tags |-> {TagN, TagU}, emojis |-> {Emoji1, Emoji3, Emoji4}],
      [role |-> "emoji", accounts |-> {Account0, Account1, Account2},
       tags |-> {TagN, TagU}, emojis |-> {Emoji1, Emoji2}],
      [role |-> "emoji", accounts |-> {Account0, Account1, Account2},
       tags |-> {TagN, TagU}, emojis |-> {Emoji3, Emoji4}],
      [role |-> "emoji", accounts |-> {Account0, Account1, Account2},
       tags |-> {TagN, TagU}, emojis |-> {}] }

\* originAccountID arguments: a stored account and an unknown one
OriginIDs == {10, 99}

\* targetAccounts arguments
MentionTokens ==
    { <<"@", "a">>,                       \* @user
      <<"@", "A">>,                       \* @user, other letter case
      <<"@", "b">>,                       \* @user, no such account
      <<"@", "a", "@", "x">>,             \* @user@domain
      <<"a">>,                            \* no leading @
      <<"@">>,                            \* empty username
      <<"@", "a", "@">>,                  \* empty domain
      <<"@", "a", "@", "x", "@", "x">> }  \* a second separator

\* tags arguments
TagNames == { <<"N">>, <<"n">>, <<"u">> }

\* emojis arguments
Shortcodes == { <<"e">>, <<"E">>, <<"f">>, <<"g">> }

RECURSIVE SeqsUpTo(_, _)
SeqsUpTo(S, n) ==
    IF n = 0 THEN {<<>>}
    ELSE LET shorter == SeqsUpTo(S, n - 1)
         IN  shorter \cup {Append(s, x) : s \in {t \in shorter : Len(t) = n - 1}, x \in S}

IdleCall ==
    [pc |-> "idle", op |-> "none", tokens |-> <<>>, idx |-> 1, result |-> <<>>,
     err |-> Nil, originAccountID |-> 0, ogAccount |-> ZeroAccount, lookups |-> 0]

(* ------------------------------ queries ------------------------------- *)

\* the error a query returns when the call's context is done or the
\* connection is lost
QueryErr(w) ==
    CASE fault[w] = "canceled" -> ContextCanceled
      [] fault[w] = "deadline" -> DeadlineExceeded
      [] OTHER -> ErrBadConn

\* NewSelect().Model(row).Where(...).Scan(ctx): the possible outcomes of
\* scanning one row out of the rows that satisfy the WHERE clauses; which of
\* several matching rows is scanned is left to the database
Scan(w, matches, zero) ==
    IF fault[w] # "none"
    THEN {[err |-> QueryErr(w), row |-> zero]}
    ELSE IF matches = {}
         THEN {[err |-> ErrNoRows, row |-> zero]}
         ELSE {[err |-> Nil, row |-> m] : m \in matches}

\* a query reaches the store only while the context is live
Executed(w) == IF fault[w] = "none" THEN 1 ELSE 0

\* Where("id = ?", originAccountID)
AccountsByID(id) == {acc \in accounts : acc.ID = id}

\* as LocalAccounts, without the clause on the domain
LocalAccountsAnyDomain(username) ==
    {acc \in accounts : ToLower(acc.Username) = ToLower(username)}

\* Where("LOWER(username) = LOWER(?)").Where("domain IS NULL")
LocalAccounts(username) ==
    {acc \in accounts :
        ToLower(acc.Username) = ToLower(username) /\ acc.Domain = <<>>}

\* Where("LOWER(username) = LOWER(?)").Where("LOWER(domain) = LOWER(?)")
RemoteAccounts(username, domain) ==
    {acc \in accounts :
        /\ ToLower(acc.Username) = ToLower(username)
        /\ acc.Domain # <<>>
        /\ ToLower(acc.Domain) = ToLower(domain)}

(* ---------------------- MentionStringsToMentions ---------------------- *)

\* steps 1-4 of the loop body: trim, split, count the parts, check them
ParseMention(a) ==
    LET s == SplitAt(TrimPrefixAt(a))
        local == Len(s) = 1
        username == s[1]
        domain == IF ~local /\ Len(s) = 2 THEN s[2] ELSE <<>>
    IN  IF Len(s) \notin {1, 2}
        THEN [err |-> ErrorsNew("mentioned account format was not valid"),
              local |-> FALSE, username |-> <<>>, domain |-> <<>>]
        ELSE IF username = <<>> \/ (~local /\ domain = <<>>)
        THEN [err |-> ErrorsNew("username or domain was nil"),
              local |-> local, username |-> username, domain |-> domain]
        ELSE [err |-> Nil, local |-> local, username |-> username, domain |-> domain]

\* the set the account query of the loop body selects from
MentionedAccounts(p) ==
    IF p.local THEN LocalAccounts(p.username)
    ELSE RemoteAccounts(p.username, p.domain)

NewMention(a, ogAccount, mentionedAccount) ==
    [StatusID |-> "status",
     OriginAccountID |-> ogAccount.ID,
     OriginAccountURI |-> ogAccount.URI,
     TargetAccountID |-> mentionedAccount.ID,
     NameString |-> a,
     TargetAccountURI |-> mentionedAccount.URI,
     TargetAccountURL |-> mentionedAccount.URL,
     OriginAccount |-> mentionedAccount]

\* as MentionAfterScan, but a query without a row ends the call
MentionAfterScanNoRowsFatal(c, a, o) ==
    IF o.err # Nil
    THEN [c EXCEPT !.pc = "done", !.result = <<>>,
                   !.err = Errorf("error getting account: ", o.err)]
    ELSE [c EXCEPT !.idx = @ + 1,
                   !.result = Append(@, NewMention(a, c.ogAccount, o.row))]

\* what the loop does with the outcome of the account query
MentionAfterScan(c, a, o) ==
    IF o.err # Nil
    THEN IF o.err = ErrNoRows
         THEN [c EXCEPT !.idx = @ + 1]
         ELSE [c EXCEPT !.pc = "done", !.result = <<>>,
                        !.err = Errorf("error getting account: ", o.err)]
    ELSE [c EXCEPT !.idx = @ + 1,
                   !.result = Append(@, NewMention(a, c.ogAccount, o.row))]

\* the call is made
MentionStart(w) ==
    /\ boot.service = "ps"
    /\ w \in callers
    /\ role[w] = "mention"
    /\ call[w].pc = "idle"
    /\ ncalls[w] < MaxCalls
    /\ \E toks \in SeqsUpTo(MentionTokens, MaxTokens), origin \in OriginIDs :
          call' = [call EXCEPT ![w] =
                      [IdleCall EXCEPT !.pc = "origin", !.op = "mention",
                                       !.tokens = toks, !.originAccountID = origin]]
    /\ fault' = [fault EXCEPT ![w] = "none"]
    /\ ncalls' = [ncalls EXCEPT ![w] = @ + 1]
    /\ UNCHANGED <<accounts, mentions, tags, emojis, now, lastTags, callers, role, startupVars>>

\* the query for the origin account
MentionOrigin(w) ==
    /\ call[w].pc = "origin"
    /\ call[w].op = "mention"
    /\ \E o \in Scan(w, AccountsByID(call[w].originAccountID), ZeroAccount) :
          call' = [call EXCEPT ![w] =
                      IF o.err # Nil
                      THEN [@ EXCEPT !.pc = "done", !.err = o.err,
                                     !.lookups = @ + Executed(w)]
                      ELSE [@ EXCEPT !.pc = "loop", !.ogAccount = o.row,
                                     !.lookups = @ + Executed(w)]]
    /\ UNCHANGED <<accounts, mentions, tags, emojis, fault, now, ncalls, lastTags, callers, role, startupVars>>

\* one iteration of the loop over targetAccounts
MentionIter(w) ==
    /\ call[w].pc = "loop"
    /\ call[w].op = "mention"
    /\ call[w].idx <= Len(call[w].tokens)
    /\ LET c == call[w]
           a == c.tokens[c.idx]
           p == ParseMention(a)
       IN  IF p.err # Nil
           THEN call' = [call EXCEPT ![w] =
                            [c EXCEPT !.pc = "done", !.result = <<>>, !.err = p.err]]
           ELSE \E o \in Scan(w, MentionedAccounts(p), ZeroAccount) :
                   call' = [call EXCEPT ![w] =
                               [MentionAfterScan(c, a, o) EXCEPT
                                   !.lookups = @ + Executed(w)]]
    /\ UNCHANGED <<accounts, mentions, tags, emojis, fault, now, ncalls, lastTags, callers, role, startupVars>>

\* the loop is over: return menchies, nil
MentionReturn(w) ==
    /\ call[w].pc = "loop"
    /\ call[w].op = "mention"
    /\ call[w].idx > Len(call[w].tokens)
    /\ call' = [call EXCEPT ![w] = [@ EXCEPT !.pc = "done", !.err = Nil]]
    /\ UNCHANGED <<accounts, mentions, tags, emojis, fault, now, ncalls, lastTags, callers, role, startupVars>>

(* -------------------------- TagStringsToTags -------------------------- *)

\* Where("LOWER(name) = LOWER(?)", t)
TagsByName(t) == {r \in tags : ToLower(r.Name) = ToLower(t)}

\* the tag populated when the query finds no row
NewTag(newID, t, originAccountID, time) ==
    [ID |-> newID,
     URL |-> <<"https", "://", "host", "/tags/", t>>,
     Name |-> t,
     FirstSeenFromAccountID |-> originAccountID,
     CreatedAt |-> time,
     UpdatedAt |-> time,
     Useable |-> TRUE,
     Listable |-> TRUE,
     LastStatusAt |-> 0]

\* as TagKeep, but the tag is put at the head of the list
TagKeepInFront(c, tag, time) ==
    IF ~tag.Useable
    THEN [c EXCEPT !.idx = @ + 1]
    ELSE [c EXCEPT !.idx = @ + 1,
                   !.result = <<[tag EXCEPT !.LastStatusAt = time]>> \o @]

\* the end of the loop body: skip a tag that is not useable, else stamp and
\* append it
TagKeep(c, tag, time) ==
    IF ~tag.Useable
    THEN [c EXCEPT !.idx = @ + 1]
    ELSE [c EXCEPT !.idx = @ + 1,
                   !.result = Append(@, [tag EXCEPT !.LastStatusAt = time])]

\* the identifiers of the tags of a list
IDsOf(ts) == {ts[i].ID : i \in 1..Len(ts)}

\* the identifiers some tag carries, stored or held by a caller
UsedIDs ==
    {r.ID : r \in tags}
    \cup UNION {IDsOf(lastTags[w]) : w \in Workers}
    \cup UNION {IDsOf(call[w].result) : w \in {v \in Workers : call[v].op = "tag"}}

\* id.NewRandomULID(): an identifier no tag carries, named by the least
\* number not in use
NewRandomULID ==
    CHOOSE n \in 1..(Cardinality(UsedIDs) + 1) :
        n \notin UsedIDs /\ \A m \in 1..(n - 1) : m \in UsedIDs

ErrULID == [msg |-> <<"ulid: entropy source failed">>, is |-> {}]

TagStart(w) ==
    /\ boot.service = "ps"
    /\ w \in callers
    /\ role[w] = "tag"
    /\ call[w].pc = "idle"
    /\ ncalls[w] < MaxCalls
    /\ \E names \in SeqsUpTo(TagNames, MaxTokens) :
          call' = [call EXCEPT ![w] =
                      [IdleCall EXCEPT !.pc = "loop", !.op = "tag",
                                       !.tokens = names, !.originAccountID = 10]]
    /\ fault' = [fault EXCEPT ![w] = "none"]
    /\ ncalls' = [ncalls EXCEPT ![w] = @ + 1]
    /\ \E t \in now..MaxTime : now' = t
    /\ UNCHANGED <<accounts, mentions, tags, emojis, lastTags, callers, role, startupVars>>

\* as TagIter, but a tag built for an unknown name is inserted at once
TagIterInserting(w) ==
    /\ call[w].pc = "loop"
    /\ call[w].op = "tag"
    /\ call[w].idx <= Len(call[w].tokens)
    /\ LET c == [call[w] EXCEPT !.lookups = @ + Executed(w)]
           t == c.tokens[c.idx]
       IN  \E o \in Scan(w, TagsByName(t), ZeroTag) :
              IF o.err = ErrNoRows
              THEN \E ulidOK \in BOOLEAN :
                      IF ulidOK
                      THEN /\ call' = [call EXCEPT ![w] =
                                TagKeep(c, NewTag(NewRandomULID, t, c.originAccountID, now), now)]
                           /\ tags' = tags \cup {NewTag(NewRandomULID, t, c.originAccountID, now)}
                      ELSE /\ call' = [call EXCEPT ![w] =
                                [c EXCEPT !.pc = "done", !.result = <<>>, !.err = ErrULID]]
                           /\ tags' = tags
              ELSE /\ tags' = tags
                   /\ IF o.err # Nil
                      THEN call' = [call EXCEPT ![w] =
                               [c EXCEPT !.pc = "done", !.result = <<>>,
                                         !.err = Errorf("error getting tag: ", o.err)]]
                      ELSE call' = [call EXCEPT ![w] = TagKeep(c, o.row, now)]
    /\ UNCHANGED <<accounts, mentions, emojis, fault, now, ncalls, lastTags, callers, role, startupVars>>

\* one iteration of the loop over tags
TagIter(w) ==
    /\ call[w].pc = "loop"
    /\ call[w].op = "tag"
    /\ call[w].idx <= Len(call[w].tokens)
    /\ LET c == [call[w] EXCEPT !.lookups = @ + Executed(w)]
           t == c.tokens[c.idx]
       IN  \E o \in Scan(w, TagsByName(t), ZeroTag) :
              IF o.err = ErrNoRows
              THEN \E ulidOK \in BOOLEAN :
                      IF ulidOK
                      THEN call' = [call EXCEPT ![w] =
                              TagKeep(c, NewTag(NewRandomULID, t, c.originAccountID, now), now)]
                      ELSE call' = [call EXCEPT ![w] =
                              [c EXCEPT !.pc = "done", !.result = <<>>, !.err = ErrULID]]
              ELSE IF o.err # Nil
                   THEN call' = [call EXCEPT ![w] =
                            [c EXCEPT !.pc = "done", !.result = <<>>,
                                      !.err = Errorf("error getting tag: ", o.err)]]
                   ELSE call' = [call EXCEPT ![w] = TagKeep(c, o.row, now)]
    /\ UNCHANGED <<accounts, mentions, tags, emojis, fault, now, ncalls, lastTags, callers, role, startupVars>>

\* the loop is over: return newTags, nil
TagReturn(w) ==
    /\ call[w].pc = "loop"
    /\ call[w].op = "tag"
    /\ call[w].idx > Len(call[w].tokens)
    /\ call' = [call EXCEPT ![w] = [@ EXCEPT !.pc = "done", !.err = Nil]]
    /\ UNCHANGED <<accounts, mentions, tags, emojis, fault, now, ncalls, lastTags, callers, role, startupVars>>

(* ------------------------ EmojiStringsToEmojis ------------------------ *)

\* as EmojisByShortcode, without the clause on disabled
EmojisByShortcodeAnyState(e) ==
    {r \in emojis : r.Shortcode = e /\ r.VisibleInPicker}

\* Where("shortcode = ?", e).Where("visible_in_picker = true")
\*                          .Where("disabled = false")
EmojisByShortcode(e) ==
    {r \in emojis : r.Shortcode = e /\ r.VisibleInPicker /\ ~r.Disabled}

EmojiAfterScan(c, o) ==
    IF o.err # Nil
    THEN IF o.err = ErrNoRows
         THEN [c EXCEPT !.idx = @ + 1]
         ELSE [c EXCEPT !.pc = "done", !.result = <<>>,
                        !.err = Errorf("error getting emoji: ", o.err)]
    ELSE [c EXCEPT !.idx = @ + 1, !.result = Append(@, o.row)]

EmojiStart(w) ==
    /\ boot.service = "ps"
    /\ w \in callers
    /\ role[w] = "emoji"
    /\ call[w].pc = "idle"
    /\ ncalls[w] < MaxCalls
    /\ \E codes \in SeqsUpTo(Shortcodes, MaxTokens) :
          call' = [call EXCEPT ![w] =
                      [IdleCall EXCEPT !.pc = "loop", !.op = "emoji", !.tokens = codes]]
    /\ fault' = [fault EXCEPT ![w] = "none"]
    /\ ncalls' = [ncalls EXCEPT ![w] = @ + 1]
    /\ UNCHANGED <<accounts, mentions, tags, emojis, now, lastTags, callers, role, startupVars>>

\* one iteration of the loop over emojis
EmojiIter(w) ==
    /\ call[w].pc = "loop"
    /\ call[w].op = "emoji"
    /\ call[w].idx <= Len(call[w].tokens)
    /\ LET c == [call[w] EXCEPT !.lookups = @ + Executed(w)]
       IN  \E o \in Scan(w, EmojisByShortcode(c.tokens[c.idx]), ZeroEmoji) :
              call' = [call EXCEPT ![w] = EmojiAfterScan(c, o)]
    /\ UNCHANGED <<accounts, mentions, tags, emojis, fault, now, ncalls, lastTags, callers, role, startupVars>>

\* the loop is over: return newEmojis, nil
EmojiReturn(w) ==
    /\ call[w].pc = "loop"
    /\ call[w].op = "emoji"
    /\ call[w].idx > Len(call[w].tokens)
    /\ call' = [call EXCEPT ![w] = [@ EXCEPT !.pc = "done", !.err = Nil]]
    /\ UNCHANGED <<accounts, mentions, tags, emojis, fault, now, ncalls, lastTags, callers, role, startupVars>>

(* ------------------------------ callers ------------------------------- *)

\* the caller's context is cancelled, its deadline passes, or the
\* connection breaks, while a call is in progress
Fault(w) ==
    /\ call[w].pc \in {"origin", "loop"}
    /\ fault[w] = "none"
    /\ \E k \in {"canceled", "deadline", "conn"} : fault' = [fault EXCEPT ![w] = k]
    /\ UNCHANGED <<accounts, mentions, tags, emojis, call, now, ncalls, lastTags, callers, role, startupVars>>

\* the list when it holds one tag, else the empty list
Single(ts) == IF Len(ts) = 1 THEN ts ELSE <<>>

\* the caller writes returned tags to the tags table: a row with the same id
\* is replaced (the last-used timestamp is bumped), a new row is inserted
\* unless the unique index on name rejects it
RECURSIVE PutTags(_, _)
PutTags(rows, ts) ==
    IF ts = <<>> THEN rows
    ELSE LET t == Head(ts)
             after == IF \E r \in rows : r.ID = t.ID
                      THEN {r \in rows : r.ID # t.ID} \cup {t}
                      ELSE IF \E r \in rows : r.Name = t.Name
                           THEN rows
                           ELSE rows \cup {t}
         IN  PutTags(after, Tail(ts))

PersistTags(w) ==
    /\ call[w].pc = "done"
    /\ call[w].op = "tag"
    /\ call[w].err = Nil
    /\ tags' = PutTags(tags, call[w].result)
    /\ call' = [call EXCEPT ![w] = IdleCall]
    /\ lastTags' = [lastTags EXCEPT ![w] = Single(call[w].result)]
    /\ UNCHANGED <<accounts, mentions, emojis, fault, now, ncalls, callers, role, startupVars>>

\* the caller writes the returned mentions to the mentions table
PersistMentions(w) ==
    /\ call[w].pc = "done"
    /\ call[w].op = "mention"
    /\ call[w].err = Nil
    /\ call[w].result # <<>>
    /\ mentions' = mentions \cup {call[w].result[i] : i \in 1..Len(call[w].result)}
    /\ call' = [call EXCEPT ![w] = IdleCall]
    /\ UNCHANGED <<accounts, tags, emojis, fault, now, ncalls, lastTags, callers, role, startupVars>>

\* the caller takes the returned values and goes on
Release(w) ==
    /\ call[w].pc = "done"
    /\ call' = [call EXCEPT ![w] = IdleCall]
    /\ lastTags' = IF call[w].op = "tag" /\ call[w].err = Nil
                   THEN [lastTags EXCEPT ![w] = Single(call[w].result)]
                   ELSE lastTags
    /\ UNCHANGED <<accounts, mentions, tags, emojis, fault, now, ncalls, callers, role, startupVars>>

(* ------------------------------ startup ------------------------------- *)

resolverVars ==
    <<accounts, mentions, tags, emojis, call, fault, now, ncalls, lastTags, callers, role>>

dbTypePostgres == "postgres"
dbTypeSqlite == "sqlite"
dbTLSModeDisable == "disable"
dbTLSModeEnable == "enable"
dbTLSModeRequire == "require"
dbTLSModeUnset == ""

\* db.DBTypePostgres
DBTypePostgres == "POSTGRES"

\* strings.ToLower on the db-type values of the model
ToLowerStr(t) ==
    CASE t \in {"postgres", "Postgres", "POSTGRES"} -> "postgres"
      [] t \in {"sqlite", "SQLite"} -> "sqlite"
      [] OTHER -> t

\* strings.ToUpper on the db-type values of the model
ToUpperStr(t) ==
    CASE t \in {"postgres", "Postgres", "POSTGRES"} -> "POSTGRES"
      [] t \in {"sqlite", "SQLite"} -> "SQLITE"
      [] t = "mysql" -> "MYSQL"
      [] OTHER -> t

\* runtime.GOMAXPROCS(0) of the machine
GoMaxProcs == 2

NilTLS ==
    [nil |-> TRUE, InsecureSkipVerify |-> FALSE, ServerName |-> "", MinVersion |-> "",
     RootCAs |-> "nil"]

NilOpts ==
    [nil |-> TRUE, Host |-> "", Port |-> 0, User |-> "", Password |-> "",
     Database |-> "", TLSConfig |-> NilTLS]

NilConn == [nil |-> TRUE, dialect |-> "", opts |-> NilOpts, maxOpenConns |-> 0,
            maxIdleConns |-> 0, connMaxLifetimeZero |-> FALSE]

\* the switch on the TLS mode
TLSConfigFor(c) ==
    CASE c.DbTLSMode \in {dbTLSModeDisable, dbTLSModeUnset} -> NilTLS
      [] c.DbTLSMode = dbTLSModeEnable ->
            [NilTLS EXCEPT !.nil = FALSE, !.InsecureSkipVerify = TRUE]
      [] c.DbTLSMode = dbTLSModeRequire ->
            [NilTLS EXCEPT !.nil = FALSE, !.InsecureSkipVerify = FALSE,
                           !.ServerName = c.DbAddress, !.MinVersion = "TLS12"]
      [] OTHER -> NilTLS

\* as CACertErr, but a file that holds no PEM block is let through
CACertErrNoPEMCheck(c) ==
    CASE c.SystemCertPool = "err" -> ErrorsNew("error fetching system CA cert pool")
      [] c.CAFile = "unreadable" -> ErrorsNew("error opening CA certificate")
      [] c.CAFile = "empty" -> ErrorsNew("ca cert was empty")
      [] c.CAFile = "notx509" -> ErrorsNew("could not parse cert into x509 certificate")
      [] OTHER -> Nil

\* the CA certificate block: the returned error, Nil when the pool is built
CACertErr(c) ==
    CASE c.SystemCertPool = "err" -> ErrorsNew("error fetching system CA cert pool")
      [] c.CAFile = "unreadable" -> ErrorsNew("error opening CA certificate")
      [] c.CAFile = "empty" -> ErrorsNew("ca cert was empty")
      [] c.CAFile = "notpem" -> ErrorsNew("could not parse cert into PEM")
      [] c.CAFile = "notx509" -> ErrorsNew("could not parse cert into x509 certificate")
      [] OTHER -> Nil

OptsErr(text) == [err |-> ErrorsNew(text), opts |-> NilOpts]

\* as pgConn, but the connection is opened before the options are looked at
pgConnOpenFirst(c) ==
    {[conn |-> NilConn, err |-> Errorf("postgres ping: ", e),
      events |-> <<"open", "ping">>] : e \in {ContextCanceled, ErrBadConn}}
    \cup {[conn |-> [NilConn EXCEPT !.nil = FALSE, !.dialect = "pg"], err |-> Nil,
           events |-> <<"open", "ping">>]}

deriveBunDBPGOptions(c) ==
    IF ToUpperStr(c.DbType) # DBTypePostgres
    THEN OptsErr("expected db type of POSTGRES")
    ELSE IF c.DbPort = 0 THEN OptsErr("no port set")
    ELSE IF c.DbAddress = "" THEN OptsErr("no address set")
    ELSE IF c.DbUser = "" THEN OptsErr("no user set")
    ELSE IF c.DbPassword = "" THEN OptsErr("no password set")
    ELSE IF c.DbDatabase = "" THEN OptsErr("no database set")
    ELSE LET tlsConfig == TLSConfigFor(c)
             withCA == ~tlsConfig.nil /\ c.DbTLSCACert # ""
         IN  IF withCA /\ CACertErr(c) # Nil
             THEN [err |-> CACertErr(c), opts |-> NilOpts]
             ELSE [err |-> Nil,
                   opts |-> [nil |-> FALSE,
                             Host |-> c.DbAddress,
                             Port |-> c.DbPort % 65536,
                             User |-> c.DbUser,
                             Password |-> c.DbPassword,
                             Database |-> c.DbDatabase,
                             TLSConfig |-> IF withCA
                                           THEN [tlsConfig EXCEPT !.RootCAs = "system+ca"]
                                           ELSE tlsConfig]]

\* the errors a ping, a migrator.Init or a migrator.Migrate can meet
IOErrors == {ContextCanceled, ErrBadConn}

\* tweakConnectionValues, then WrapDBConn(bun.NewDB(sqldb, dialect))
NewConn(dialect, opts, lifetimeZero) ==
    [nil |-> FALSE, dialect |-> dialect, opts |-> opts,
     maxOpenConns |-> 4 * GoMaxProcs, maxIdleConns |-> 4 * GoMaxProcs,
     connMaxLifetimeZero |-> lifetimeZero]

\* pgConn: the possible returns, with the events that happened on the way
pgConn(c) ==
    LET d == deriveBunDBPGOptions(c)
    IN  IF d.err # Nil
        THEN {[conn |-> NilConn,
               err |-> Errorf("could not create bundb postgres options: ", d.err),
               events |-> <<>>]}
        ELSE {[conn |-> NilConn, err |-> Errorf("postgres ping: ", e),
               events |-> <<"open", "ping">>] : e \in IOErrors}
             \cup {[conn |-> NewConn("pg", d.opts, FALSE), err |-> Nil,
                    events |-> <<"open", "ping">>]}

SqliteBusy == [msg |-> <<"sqlite error 5">>, is |-> {"*sqlite.Error"}]

\* err.(*sqlite.Error) -> errors.New(sqlite.ErrorCodeString[code])
SqliteReadable(e) == IF e = SqliteBusy THEN ErrorsNew("SQLITE_BUSY") ELSE e

\* sqliteConn: the possible returns, with the events that happened on the way
sqliteConn(c) ==
    {[conn |-> NilConn, err |-> Errorf("could not open sqlite db: ", SqliteReadable(e)),
      events |-> <<"open">>] : e \in {SqliteBusy}}
    \cup {[conn |-> NilConn, err |-> Errorf("sqlite ping: ", SqliteReadable(e)),
           events |-> <<"open", "ping">>] : e \in IOErrors \cup {SqliteBusy}}
    \cup {[conn |-> NewConn("sqlite", NilOpts, c.DbAddress = ":memory:"), err |-> Nil,
           events |-> <<"open", "ping">>]}

\* the switch on the db type at the head of NewBunDBService
Connect(c) ==
    CASE ToLowerStr(c.DbType) = dbTypePostgres -> pgConn(c)
      [] ToLowerStr(c.DbType) = dbTypeSqlite -> sqliteConn(c)
      [] OTHER -> {[conn |-> NilConn,
                    err |-> ErrorsNew("database type not supported for bundb"),
                    events |-> <<>>]}

Booting ==
    [pc |-> "start", log |-> <<>>, conn |-> NilConn, service |-> "nil", err |-> Nil,
     cause |-> Nil, atStart |-> [table |-> FALSE, applied |-> 0, lastGroup |-> 0]]

\* NewBunDBService up to the connection
StartupConnect ==
    /\ boot.pc = "start"
    /\ \E r \in Connect(cfg) :
          boot' = IF r.err # Nil
                  THEN [boot EXCEPT !.pc = "failed", !.err = r.err,
                                    !.log = @ \o r.events]
                  ELSE [boot EXCEPT !.pc = "connected", !.conn = r.conn,
                                    !.log = @ \o r.events]
    /\ UNCHANGED <<cfg, schema, defined, nstart, resolverVars>>

\* the loop over registerTables
RegisterTables ==
    /\ boot.pc = "connected"
    /\ boot' = [boot EXCEPT !.pc = "registered", !.log = Append(@, "register")]
    /\ UNCHANGED <<cfg, schema, defined, nstart, resolverVars>>

ErrNoMigrations == ErrorsNew("migrate: there are no any migrations")

\* migrator.Init: creates the bookkeeping tables if they are absent
MigratorInit(sch) ==
    {[schema |-> sch, err |-> e] : e \in IOErrors}
    \cup {[schema |-> [sch EXCEPT !.table = TRUE], err |-> Nil]}

\* migrator.Migrate: applies the migrations after the last applied one, in
\* order, as one new group; k is the number of steps that ran before a failure
MigratorMigrate(sch, n) ==
    IF n = 0
    THEN {[schema |-> sch, groupID |-> 0, err |-> ErrNoMigrations]}
    ELSE LET pending == n - sch.applied
         IN  {[schema |-> [sch EXCEPT !.applied = @ + k,
                                      !.lastGroup = IF k > 0 THEN @ + 1 ELSE @],
               groupID |-> 0, err |-> e] :
                  k \in 0..(IF pending = 0 THEN 0 ELSE pending - 1), e \in IOErrors}
             \cup {[schema |-> [sch EXCEPT !.applied = n,
                                           !.lastGroup = IF pending > 0 THEN @ + 1 ELSE @],
                    groupID |-> IF pending > 0 THEN sch.lastGroup + 1 ELSE 0,
                    err |-> Nil]}

\* as doMigrationReturn, without the special case of no migrations
doMigrationReturnStrict(initErr, migrateErr) ==
    IF initErr # Nil THEN initErr ELSE migrateErr

\* what doMigration returns for the outcomes of Init and Migrate
doMigrationReturn(initErr, migrateErr) ==
    IF initErr # Nil THEN initErr
    ELSE IF migrateErr # Nil
         THEN IF migrateErr.msg = <<"migrate: there are no any migrations">>
              THEN Nil
              ELSE migrateErr
         ELSE Nil

\* doMigration: the possible runs from a schema, as the schema left behind,
\* the events, and the returned error
doMigration(sch, n) ==
    UNION { IF i.err # Nil
            THEN {[schema |-> i.schema, events |-> <<"init">>,
                   err |-> doMigrationReturn(i.err, Nil)]}
            ELSE {[schema |-> m.schema, events |-> <<"init", "migrate">>,
                   err |-> doMigrationReturn(Nil, m.err)] :
                      m \in MigratorMigrate(i.schema, n)}
          : i \in MigratorInit(sch) }

\* as AfterMigration, but the error of doMigration is only logged
AfterMigrationLenient(b, r) ==
    [b EXCEPT !.pc = "migrated", !.log = @ \o r.events]

\* NewBunDBService after doMigration returned: wrap the error, or go on
AfterMigration(b, r) ==
    IF r.err # Nil
    THEN [b EXCEPT !.pc = "failed", !.log = @ \o r.events, !.cause = r.err,
                   !.err = Errorf("db migration error: ", r.err)]
    ELSE [b EXCEPT !.pc = "migrated", !.log = @ \o r.events]

\* NewBunDBService: perform any pending database migrations
StartupMigrate ==
    /\ boot.pc = "registered"
    /\ \E r \in doMigration(schema, defined) :
          /\ schema' = r.schema
          /\ boot' = AfterMigration(boot, r)
    /\ UNCHANGED <<cfg, defined, nstart, resolverVars>>

\* NewBunDBService: build the repositories and return ps, nil
StartupService ==
    /\ boot.pc = "migrated"
    /\ boot' = [boot EXCEPT !.pc = "serving", !.service = "ps",
                            !.log = Append(@, "service")]
    /\ UNCHANGED <<cfg, schema, defined, nstart, resolverVars>>

\* the process is started again on the same database
Restart ==
    /\ boot.pc \in {"failed", "serving"}
    /\ nstart < MaxStartups
    /\ nstart' = nstart + 1
    /\ boot' = [Booting EXCEPT !.atStart = schema]
    /\ UNCHANGED <<cfg, schema, defined, resolverVars>>

DbTypes == {"postgres", "Postgres", "sqlite", "mysql"}

SqliteConfig ==
    [DbType |-> "sqlite", DbPort |-> 0, DbAddress |-> ":memory:", DbUser |-> "",
     DbPassword |-> "", DbDatabase |-> "", DbTLSMode |-> "", DbTLSCACert |-> "",
     CAFile |-> "ok", SystemCertPool |-> "ok"]

AllConfigs ==
    [DbType : DbTypes, DbPort : {0, 5432, 65536}, DbAddress : {"", "host", ":memory:"},
     DbUser : {"", "user"}, DbPassword : {"", "secret"}, DbDatabase : {"", "gts"},
     DbTLSMode : {"", "disable", "enable", "require", "verify-full"},
     DbTLSCACert : {"", "/ca.pem"},
     CAFile : {"unreadable", "empty", "notpem", "notx509", "ok"},
     SystemCertPool : {"ok", "err"}]

\* the configurations the model starts from: the file behind the CA path
\* matters only when a path is set, TLS settings only for postgres
Configs ==
    {c \in AllConfigs :
        /\ c.DbTLSCACert = "" => c.CAFile = "ok" /\ c.SystemCertPool = "ok"
        /\ ToLowerStr(c.DbType) # dbTypePostgres =>
              /\ c.DbTLSMode = "" /\ c.DbTLSCACert = ""
              /\ c.DbPort = 0 /\ c.DbUser = "" /\ c.DbPassword = "" /\ c.DbDatabase = ""}

InitStartup ==
    /\ accounts = {}
    /\ mentions = {}
    /\ tags = {}
    /\ emojis = {}
    /\ call = [w \in Workers |-> IdleCall]
    /\ fault = [w \in Workers |-> "none"]
    /\ now = 0
    /\ ncalls = [w \in Workers |-> 0]
    /\ lastTags = [w \in Workers |-> <<>>]
    /\ callers = {1}
    /\ role = [w \in Workers |-> "tag"]
    /\ cfg \in Configs
    /\ defined \in 0..MaxMigrations
    /\ \E a \in 0..defined :
          schema = [table |-> a > 0, applied |-> a,
                    lastGroup |-> IF a > 0 THEN 1 ELSE 0]
    /\ boot = [Booting EXCEPT !.atStart = schema]
    /\ nstart = 1

NextStartup ==
    \/ StartupConnect
    \/ RegisterTables
    \/ StartupMigrate
    \/ StartupService
    \/ Restart

vars == <<accounts, mentions, tags, emojis, call, fault, now, ncalls, lastTags, callers, role, startupVars>>

Init ==
    /\ \E st \in Stores :
          /\ accounts = st.accounts
          /\ mentions = {}
          /\ tags = st.tags
          /\ emojis = st.emojis
          /\ role = [w \in Workers |-> IF w = 1 THEN st.role ELSE "tag"]
    /\ call = [w \in Workers |-> IdleCall]
    /\ fault = [w \in Workers |-> "none"]
    /\ now = 0
    /\ ncalls = [w \in Workers |-> 0]
    /\ lastTags = [w \in Workers |-> <<>>]
    /\ callers = {1}
    /\ cfg = SqliteConfig
    /\ boot = [Booting EXCEPT !.pc = "serving", !.service = "ps",
                              !.conn = NewConn("sqlite", NilOpts, TRUE),
                              !.log = <<"open", "ping", "register", "init", "migrate", "service">>]
    /\ schema = [table |-> TRUE, applied |-> 1, lastGroup |-> 1]
    /\ defined = 1
    /\ nstart = 1

Next ==
    \E w \in Workers :
        \/ MentionStart(w)
        \/ MentionOrigin(w)
        \/ MentionIter(w)
        \/ MentionReturn(w)
        \/ TagStart(w)
        \/ TagIter(w)
        \/ TagReturn(w)
        \/ EmojiStart(w)
        \/ EmojiIter(w)
        \/ EmojiReturn(w)
        \/ Fault(w)
        \/ PersistTags(w)
        \/ PersistMentions(w)
        \/ Release(w)

Spec == Init /\ [][Next]_vars

SpecStartup == InitStartup /\ [][NextStartup]_vars

(* ------------------- the shape of a mention token -------------------- *)

\* positions of a separator after the first character
Separators(a) == {i \in 2..Len(a) : a[i] = "@"}

\* a is `@user` or `@user@domain`, user and domain not empty
WellFormedMention(a) ==
    /\ Len(a) >= 2
    /\ a[1] = "@"
    /\ a[2] # "@"
    /\ Cardinality(Separators(a)) <= 1
    /\ Len(a) \notin Separators(a)

IsLocalToken(a) == Separators(a) = {}

UserOf(a) ==
    IF IsLocalToken(a) THEN SubSeq(a, 2, Len(a))
    ELSE SubSeq(a, 2, (CHOOSE i \in Separators(a) : TRUE) - 1)

DomainOf(a) == SubSeq(a, (CHOOSE i \in Separators(a) : TRUE) + 1, Len(a))

\* the stored accounts a well-formed token names
Targets(a) ==
    {acc \in accounts :
        /\ ToLower(acc.Username) = ToLower(UserOf(a))
        /\ IF IsLocalToken(a) THEN acc.Domain = <<>>
           ELSE ToLower(acc.Domain) = ToLower(DomainOf(a))}

HasTarget(a) == Targets(a) # {}

MentionDone(w) == call[w].pc = "done" /\ call[w].op = "mention"

OriginStored(w) == \E acc \in accounts : acc.ID = call[w].originAccountID

AllWellFormed(w) ==
    \A i \in 1..Len(call[w].tokens) : WellFormedMention(call[w].tokens[i])

(* ------------------------------- claims ------------------------------- *)

\* C1: a MentionStringsToMentions call whose token list holds a token that
\* is not `@user` or `@user@domain` returns an error and zero Mentions.
C1_MalformedTokenFails ==
    \A w \in Workers :
        (MentionDone(w) /\ ~AllWellFormed(w))
            => (call[w].err # Nil /\ call[w].result = <<>>)

\* C2: with the origin account stored and every token well-formed, a token
\* without a stored account is dropped: the call fails only when a query
\* itself fails, and a call that returns nil error returns one Mention, in
\* order, for exactly the tokens that have a stored account.
C2_UnknownAccountDropped ==
    \A w \in Workers :
        (MentionDone(w) /\ OriginStored(w) /\ AllWellFormed(w))
            => /\ (call[w].err = Nil \/ fault[w] # "none")
               /\ call[w].err = Nil =>
                     [i \in 1..Len(call[w].result) |-> call[w].result[i].NameString]
                         = SelectSeq(call[w].tokens, HasTarget)

C2_Witness ==
    \E w \in Workers :
        /\ MentionDone(w) /\ OriginStored(w) /\ AllWellFormed(w)
        /\ call[w].err = Nil
        /\ Len(call[w].tokens) = 2
        /\ Len(call[w].result) = 1
        /\ ~HasTarget(call[w].tokens[2])

\* C3: every Mention built for a token `@user` targets a stored account with
\* that username (letter case ignored) and a null domain; every Mention built
\* for `@user@domain` targets a stored account whose username and domain both
\* match (letter case ignored); the Mention carries that account's id, URI
\* and URL.
C3_MentionTargetsMatchedAccount ==
    \A w \in Workers :
        call[w].op = "mention" =>
            \A i \in 1..Len(call[w].result) :
                LET m == call[w].result[i]
                IN  m.NameString[1] = "@" =>
                       \E acc \in Targets(m.NameString) :
                           /\ m.TargetAccountID = acc.ID
                           /\ m.TargetAccountURI = acc.URI
                           /\ m.TargetAccountURL = acc.URL

C3_Witness ==
    \E w \in Workers :
        /\ MentionDone(w)
        /\ call[w].err = Nil
        /\ Account2 \in accounts
        /\ Len(call[w].result) = 2
        /\ call[w].result[1].NameString = <<"@", "A">>
        /\ call[w].result[1].TargetAccountID = Account1.ID
        /\ call[w].result[2].NameString = <<"@", "a", "@", "x">>
        /\ call[w].result[2].TargetAccountID = Account2.ID
TagDone(w) == call[w].pc = "done" /\ call[w].op = "tag" /\ call[w].err = Nil

\* C4: a TagStringsToTags call with one name the store does not hold returns
\* one new Tag with the case-folded name and usable = true; the caller's next
\* call with that name returns a Tag with the same identifier and a
\* last-used timestamp that is not older; the store never holds two Tags of
\* that name.
C4_TagCreatedOnceAndReused ==
    \A w \in Workers :
        (TagDone(w) /\ Len(call[w].tokens) = 1) =>
            LET t == call[w].tokens[1]
                prev == lastTags[w]
            IN  /\ TagsByName(t) = {} =>
                      /\ Len(call[w].result) = 1
                      /\ call[w].result[1].Name = ToLower(t)
                      /\ call[w].result[1].Useable
                /\ (Len(prev) = 1 /\ ToLower(prev[1].Name) = ToLower(t)) =>
                      /\ Len(call[w].result) = 1
                      /\ call[w].result[1].ID = prev[1].ID
                      /\ call[w].result[1].LastStatusAt >= prev[1].LastStatusAt
                /\ Cardinality(TagsByName(t)) <= 1

\* a doMigration has run in this startup
MigrationRan == \E i \in 1..Len(boot.log) : boot.log[i] = "init"

\* C5: a doMigration that runs on a schema in which every defined migration
\* is applied (none defined included) applies no migration and records no
\* group, and returns an error only when Init or Migrate met an I/O error.
C5_MigrationIdempotent ==
    (MigrationRan /\ boot.atStart.applied = defined) =>
        /\ schema.applied = boot.atStart.applied
        /\ schema.lastGroup = boot.atStart.lastGroup
        /\ boot.cause \in IOErrors \cup {Nil}
        /\ boot.cause = Nil => boot.pc \in {"migrated", "serving"}

C5_Witness ==
    /\ nstart = 2
    /\ boot.pc = "serving"
    /\ defined > 0
    /\ boot.atStart.applied = defined
    /\ schema.lastGroup = 1

\* the events of the log come in the given order
InOrder(log, evs) ==
    \E f \in [1..Len(evs) -> 1..Len(log)] :
        /\ \A i \in 1..Len(evs) : log[f[i]] = evs[i]
        /\ \A i \in 1..(Len(evs) - 1) : f[i] < f[i + 1]

\* C6: the service handle exists only after ping, table registration and a
\* successful doMigration, in that order; a doMigration that failed leaves no
\* service handle and an error whose text carries the originating error's.
C6_StartupGate ==
    /\ boot.service = "ps" =>
          /\ InOrder(boot.log, <<"ping", "register", "init", "migrate", "service">>)
          /\ boot.cause = Nil
          /\ schema.applied = defined
    /\ boot.cause # Nil =>
          /\ boot.service = "nil"
          /\ boot.pc = "failed"
          /\ boot.err.msg = <<"db migration error: ">> \o boot.cause.msg

C6_Witness ==
    /\ boot.service = "ps"
    /\ nstart = 1
    /\ boot.atStart.applied < schema.applied

\* the error of the call stems from the context's error
FromContext(w) ==
    /\ fault[w] \in {"canceled", "deadline"}
    /\ call[w].err # Nil
    /\ call[w].err.msg[Len(call[w].err.msg)] = QueryErr(w).msg[1]

\* C7: a call whose context was cancelled (or timed out) at a store lookup
\* returns an error in which errors.Is finds the context's error.
C7_CancellationKindPreserved ==
    \A w \in Workers :
        (call[w].pc = "done" /\ FromContext(w)) =>
            \E target \in QueryErr(w).is : ErrorsIs(call[w].err, target)

PostgresSelected == ToLowerStr(cfg.DbType) = dbTypePostgres

FieldMissing ==
    \/ cfg.DbPort = 0
    \/ cfg.DbAddress = ""
    \/ cfg.DbUser = ""
    \/ cfg.DbPassword = ""
    \/ cfg.DbDatabase = ""

\* C8: with postgres selected and port, address, user, password or database
\* missing, the startup fails with the options error and neither opens the
\* connection nor pings.
C8_ValidationBeforeNetwork ==
    (PostgresSelected /\ FieldMissing) =>
        /\ boot.log = <<>>
        /\ boot.service = "nil"
        /\ boot.pc \in {"start", "failed"}
        /\ boot.pc = "failed" =>
              boot.err.msg[1] = "could not create bundb postgres options: "

C8_Witness ==
    /\ PostgresSelected
    /\ cfg.DbPassword = ""
    /\ cfg.DbPort # 0 /\ cfg.DbAddress # "" /\ cfg.DbUser # "" /\ cfg.DbDatabase # ""
    /\ boot.pc = "failed"
    /\ nstart = 2

\* the stored emoji a shortcode can resolve to
Usable(e) == {r \in emojis : r.Shortcode = e /\ r.VisibleInPicker /\ ~r.Disabled}

HasEmoji(e) == Usable(e) # {}

\* C9: every Emoji returned is a stored one with the shortcode of an input,
\* visible in the picker and not disabled; a shortcode without one is
\* skipped, the call failing only when a query fails; no call changes the
\* emojis table.
C9_EmojiLookupOnly ==
    /\ [](\A w \in Workers :
            call[w].op = "emoji" =>
                /\ \A i \in 1..Len(call[w].result) :
                      /\ call[w].result[i] \in emojis
                      /\ \E j \in 1..Len(call[w].tokens) :
                            call[w].result[i].Shortcode = call[w].tokens[j]
                      /\ call[w].result[i].VisibleInPicker
                      /\ ~call[w].result[i].Disabled
                /\ call[w].pc = "done" =>
                      /\ (call[w].err = Nil \/ fault[w] # "none")
                      /\ call[w].err = Nil =>
                            [i \in 1..Len(call[w].result) |->
                                call[w].result[i].Shortcode]
                                = SelectSeq(call[w].tokens, HasEmoji))
    /\ [][emojis' = emojis]_vars

C9_Witness ==
    \E w \in Workers :
        /\ call[w].pc = "done" /\ call[w].op = "emoji" /\ call[w].err = Nil
        /\ Emoji3 \in emojis
        /\ Len(call[w].tokens) = 2
        /\ Len(call[w].result) = 1
        /\ call[w].tokens[1] = <<"g">>

\* the token an entity of the result can come from
ComesFrom(op, r, tok) ==
    CASE op = "mention" -> r.NameString = tok
      [] op = "tag" -> ToLower(r.Name) = ToLower(tok)
      [] OTHER -> r.Shortcode = tok

\* a nil entry would be the zero row
IsHole(op, r) ==
    CASE op = "mention" -> r.TargetAccountID = 0
      [] OTHER -> r.ID = 0

\* C10: the result of a successful call is an order-preserving subsequence of
\* the input: its entities come from distinct input positions in increasing
\* order, none is a hole, and it is no longer than the input.
C10_ResultIsSubsequence ==
    \A w \in Workers :
        (call[w].pc = "done" /\ call[w].err = Nil) =>
            LET c == call[w]
            IN  /\ Len(c.result) <= Len(c.tokens)
                /\ \A i \in 1..Len(c.result) : ~IsHole(c.op, c.result[i])
                /\ \E f \in [1..Len(c.result) -> 1..Len(c.tokens)] :
                      /\ \A i \in 1..Len(c.result) :
                            ComesFrom(c.op, c.result[i], c.tokens[f[i]])
                      /\ \A i \in 1..(Len(c.result) - 1) : f[i] < f[i + 1]

C10_Witness ==
    \E w \in Workers :
        /\ TagDone(w)
        /\ call[w].tokens = <<"u", "N">>
        /\ Len(call[w].result) = 1
        /\ call[w].result[1].Name = <<"n">>

(* ----------------------- concurrent tag creation ---------------------- *)

\* the callers that resolve tags at the same time
ConcCallers == {1, 2}

\* two statuses are posted at the same time on a server that has no tag
\* yet; each caller has one TagStringsToTags call to make
InitConc ==
    /\ accounts = {Account0}
    /\ mentions = {}
    /\ tags = {}
    /\ emojis = {}
    /\ role = [w \in Workers |-> "tag"]
    /\ call = [w \in Workers |-> IdleCall]
    /\ fault = [w \in Workers |-> "none"]
    /\ now = 0
    /\ ncalls = [w \in Workers |-> MaxCalls - 1]
    /\ lastTags = [w \in Workers |-> <<>>]
    /\ callers = ConcCallers
    /\ cfg = SqliteConfig
    /\ boot = [Booting EXCEPT !.pc = "serving", !.service = "ps",
                              !.conn = NewConn("sqlite", NilOpts, TRUE),
                              !.log = <<"open", "ping", "register", "init", "migrate", "service">>]
    /\ schema = [table |-> TRUE, applied |-> 1, lastGroup |-> 1]
    /\ defined = 1
    /\ nstart = 1

NextConc ==
    \E w \in ConcCallers :
        \/ TagStart(w)
        \/ TagIter(w)
        \/ TagReturn(w)
        \/ Fault(w)
        \/ PersistTags(w)
        \/ Release(w)

SpecConc == InitConc /\ [][NextConc]_vars

\* the tags of a state: the rows of the tags table and the tags a finished
\* TagStringsToTags call has handed to its caller
TagsInState ==
    tags \cup UNION {{call[w].result[i] : i \in 1..Len(call[w].result)} :
                        w \in {v \in Workers : TagDone(v)}}

\* C11: whatever the interleaving of concurrent TagStringsToTags calls and
\* of their callers' writes, no two tags of a state, stored or returned,
\* have names equal up to letter case and different identifiers
C11_TagNameUnique ==
    \A t1, t2 \in TagsInState :
        ToLower(t1.Name) = ToLower(t2.Name) => t1.ID = t2.ID

\* C12: the Mentions one MentionStringsToMentions call returns have
\* pairwise different target accounts, also when a token is repeated or
\* names the same account in another letter case
C12_OneMentionPerTarget ==
    \A w \in Workers :
        (MentionDone(w) /\ call[w].err = Nil) =>
            \A i, j \in 1..Len(call[w].result) :
                call[w].result[i].TargetAccountID = call[w].result[j].TargetAccountID
                    => i = j

\* the CA file cannot be read, is empty, holds no PEM block or holds no
\* x509 certificate
CAFileBad == cfg.CAFile \in {"unreadable", "empty", "notpem", "notx509"}

CAErrorTexts ==
    {"error opening CA certificate", "ca cert was empty",
     "could not parse cert into PEM", "could not parse cert into x509 certificate"}

\* C13: with postgres selected and every option present: in mode require
\* with a CA certificate path and a bad CA file the startup fails with the
\* options error about the CA file, there are no options and nothing is
\* opened; a connection that was made carries no TLS configuration in mode
\* disable or unset, one that skips verification in mode enable, and one
\* that verifies in mode require
C13_TLSModes ==
    (PostgresSelected /\ ~FieldMissing) =>
        /\ (cfg.DbTLSMode = dbTLSModeRequire /\ cfg.DbTLSCACert # "" /\ CAFileBad) =>
              /\ boot.log = <<>>
              /\ boot.conn = NilConn
              /\ boot.service = "nil"
              /\ boot.pc \in {"start", "failed"}
              /\ boot.pc = "failed" =>
                    /\ boot.err.msg[1] = "could not create bundb postgres options: "
                    /\ cfg.SystemCertPool = "ok" => boot.err.msg[2] \in CAErrorTexts
        /\ ~boot.conn.nil =>
              /\ cfg.DbTLSMode \in {dbTLSModeDisable, dbTLSModeUnset} =>
                    boot.conn.opts.TLSConfig.nil
              /\ cfg.DbTLSMode = dbTLSModeEnable =>
                    /\ ~boot.conn.opts.TLSConfig.nil
                    /\ boot.conn.opts.TLSConfig.InsecureSkipVerify
              /\ cfg.DbTLSMode = dbTLSModeRequire =>
                    /\ ~boot.conn.opts.TLSConfig.nil
                    /\ ~boot.conn.opts.TLSConfig.InsecureSkipVerify

C13_Witness ==
    /\ PostgresSelected
    /\ ~FieldMissing
    /\ cfg.DbTLSMode = dbTLSModeRequire
    /\ cfg.DbTLSCACert # ""
    /\ cfg.CAFile = "notpem"
    /\ cfg.SystemCertPool = "ok"
    /\ boot.pc = "failed"
    /\ boot.err.msg[2] = "could not parse cert into PEM"

\* a step of MentionStringsToMentions, TagStringsToTags or
\* EmojiStringsToEmojis: a call that has not returned yet moves on
ResolverStep == \E w \in Workers : call[w].pc # "done" /\ call'[w] # call[w]

====
